---- MODULE Spec2Model ----
(***************************************************************************)
(* Model of api-data-automator-report/main.py: one run of main() is a      *)
(* process that fetches the market data, transforms it and exports eight   *)
(* report artifacts, under one top-level try/except.  Several runs share   *)
(* the output directory and the wall clock.                                *)
(***************************************************************************)
EXTENDS Integers, Sequences, FiniteSets, TLC

\* ------------------------------------------------------------------ bounds
\* Largest market capitalisation a provider record carries (1..MaxCap).
MaxCap == 2
\* Last second of the wall clock (seconds 0..MaxClock).
MaxClock == 1

\* --------------------------------------------------------------- constants
COINS == <<"bitcoin", "ethereum", "solana", "dogecoin">>

\* per_page = len(COINS): the provider returns at most that many records.
PerPage == Len(COINS)

\* The columns transform_data projects onto (df[[...]]).
ReportCols ==
    {"id", "symbol", "name", "current_price", "market_cap",
     "price_change_percentage_24h", "high_24h", "low_24h", "last_updated"}

\* The columns of the cleaned frame: the projection plus the run timestamp.
SchemaCols == ReportCols \cup {"report_generated_at"}

\* The artifacts of export_reports in the order the code produces them.
ArtifactOrder ==
    <<"csv", "json", "html", "pdf", "chart", "before_img", "after_img", "csv_img">>

Runs == {1, 2}

Caps == 1..MaxCap

\* ------------------------------------------------------------ cell values
\* pandas fills a cell no record supplies with NaN; NaN as a number and as
\* an object cell.
NaNNum == 0 - 1
NaNStr == "NaN"
NaT == "NaT"
NoTime == 0 - 1

SymbolOf(id) ==
    CASE id = "bitcoin" -> "btc"
      [] id = "ethereum" -> "eth"
      [] id = "solana" -> "sol"
      [] id = "dogecoin" -> "doge"

\* str.upper() on one cell: NaN stays NaN.
Upper(s) ==
    CASE s \in {"btc", "BTC"} -> "BTC"
      [] s \in {"eth", "ETH"} -> "ETH"
      [] s \in {"sol", "SOL"} -> "SOL"
      [] s \in {"doge", "DOGE"} -> "DOGE"
      [] OTHER -> NaNStr

\* pd.to_datetime on one cell: an ISO string parses, NaN becomes NaT and
\* anything else is unparseable.
Parseable(s) == s \in {"iso", NaNStr}
ToDatetime(s) == IF s = "iso" THEN "datetime" ELSE NaT

\* ------------------------------------------------------ provider responses
\* A record as the provider sends it: the nine used fields plus a
\* provider-specific one.
FullRecord(i, cap) ==
    [c \in ReportCols \cup {"image"} |->
        CASE c = "id" -> COINS[i]
          [] c = "symbol" -> SymbolOf(COINS[i])
          [] c = "market_cap" -> cap
          [] c = "last_updated" -> "iso"
          [] OTHER -> "v"]

Without(rec, col) == [c \in (DOMAIN rec) \ {col} |-> rec[c]]

CapSeqs == UNION {[1..n -> Caps] : n \in 0..PerPage}

\* What can be wrong with a response: nothing, a column absent from the
\* first record only, a column absent from every record, or an unparseable
\* last_updated in the first record.
Anomalies ==
    {[kind |-> "none", col |-> "id"], [kind |-> "bad_date", col |-> "last_updated"]}
    \cup {[kind |-> k, col |-> c] : k \in {"drop_first", "drop_all"}, c \in ReportCols}

MkResponse(caps, an) ==
    [i \in 1..Len(caps) |->
        LET rec == FullRecord(i, caps[i]) IN
        CASE an.kind = "drop_all" -> Without(rec, an.col)
          [] an.kind = "drop_first" /\ i = 1 -> Without(rec, an.col)
          [] an.kind = "bad_date" /\ i = 1 -> [rec EXCEPT !["last_updated"] = "garbage"]
          [] OTHER -> rec]

\* The bodies of the model: the well-formed ones with any market caps, and
\* the anomalous ones with every market cap the same.
WellFormed == {MkResponse(caps, [kind |-> "none", col |-> "id"]) : caps \in CapSeqs}
Malformed == {MkResponse([i \in 1..n |-> 1], an) : n \in 0..PerPage, an \in Anomalies}
Responses == WellFormed \cup Malformed

\* A response every record of which carries every required field.
CarriesAll(raw) == \A i \in 1..Len(raw) : ReportCols \subseteq DOMAIN raw[i]

\* --------------------------------------------------------------- DataFrame
\* pd.DataFrame(list of dicts): the columns are the union of the records'
\* keys and a cell its record does not supply is NaN.
FrameCols(raw) == UNION {DOMAIN raw[i] : i \in 1..Len(raw)}

NaNOf(col) == IF col = "market_cap" THEN NaNNum ELSE NaNStr

DataFrame(raw) ==
    [i \in 1..Len(raw) |->
        [c \in FrameCols(raw) |-> IF c \in DOMAIN raw[i] THEN raw[i][c] ELSE NaNOf(c)]]

\* df[[...]] raises KeyError unless every listed column is a column.
ProjectOk(raw) == ReportCols \subseteq FrameCols(raw)

\* Lines 53-66: projection, symbol upper-cased, last_updated parsed, the
\* run timestamp on every row.
CleanRow(row, genAt) ==
    [c \in SchemaCols |->
        CASE c = "symbol" -> Upper(row[c])
          [] c = "last_updated" -> ToDatetime(row[c])
          [] c = "report_generated_at" -> genAt
          [] OTHER -> row[c]]

Clean(raw, genAt) ==
    LET df == DataFrame(raw) IN [i \in 1..Len(raw) |-> CleanRow(df[i], genAt)]

DatesOk(raw) ==
    LET df == DataFrame(raw) IN \A i \in 1..Len(raw) : Parseable(df[i]["last_updated"])

\* sort_values(by="market_cap", ascending=False) with the default
\* kind="quicksort", which is not a stable sort: the rows with a market_cap
\* come first in descending order, equal keys in either order, and the NaN
\* rows follow in their input order (na_position="last").
IsNaNCap(row) == row["market_cap"] = NaNNum

Perms(n) == {p \in [1..n -> 1..n] : \A i, j \in 1..n : i # j => p[i] # p[j]}

SortOrders(rows) ==
    LET n == Len(rows)
        k == Cardinality({i \in 1..n : ~IsNaNCap(rows[i])})
    IN {p \in Perms(n) :
          /\ \A i \in 1..k : ~IsNaNCap(rows[p[i]])
          /\ \A i \in 1..(k - 1) : rows[p[i]]["market_cap"] >= rows[p[i + 1]]["market_cap"]
          /\ \A i, j \in (k + 1)..n : i < j => p[i] < p[j]}

SortValues(rows) == {[i \in 1..Len(rows) |-> rows[p[i]]] : p \in SortOrders(rows)}

\* ------------------------------------------------------------------- state
VARIABLES
    procs,      \* the runs of main() that are launched
    net,        \* the provider: "any" body comes back, or one of a "sample"
    now,        \* the wall clock, in seconds
    pc,         \* where each run is in main()
    http,       \* how each run's GET ended
    raw,        \* the decoded response of each run
    df,         \* df_cleaned of each run
    ts,         \* the filename token of each run
    idx,        \* the artifact each run's export_reports is at
    exc,        \* the exception each run raised
    events,     \* what each run appended to run.log and wrote, in order
    files,      \* the output directory: path -> content
    clobbered   \* the writes that replaced an existing file

vars == <<procs, net, now, pc, http, raw, df, ts, idx, exc, events, files, clobbered>>

NoPath == <<"none", NoTime>>
NoExc == [stage |-> "none", kind |-> "none"]

\* A line of run.log: log() appends it (its "[timestamp]" prefix is left
\* out) and is taken not to fail.
LogEv(text, path, kind) == [type |-> "log", text |-> text, path |-> path, kind |-> kind]
\* A file written.
WriteEv(path) == [type |-> "write", text |-> "write", path |-> path, kind |-> "none"]

\* (Faulty variant: fixed filenames, the token left out.)
PathNoToken(art, token) == <<art, 0>>

\* f"{OUTPUT_DIR}/report_{ts}.csv" and the seven others: the artifact's own
\* name and extension around the token.
PathOf(art, token) == <<art, token>>

\* What a write leaves at a path.
Content(r, art, generated, complete) ==
    [by |-> r, art |-> art, generated |-> generated, complete |-> complete]

\* Writing to a path creates the file or replaces the one that is there.
Put(path, content) ==
    [p \in (DOMAIN files) \cup {path} |-> IF p = path THEN content ELSE files[p]]

Clobber(path, r) ==
    IF path \in DOMAIN files
    THEN clobbered \cup {[path |-> path, was |-> files[path].by, by |-> r]}
    ELSE clobbered

\* The bodies a GET can be answered with.
Sample ==
    {MkResponse(<<2, 1>>, [kind |-> "none", col |-> "id"]),
     MkResponse(<<>>, [kind |-> "none", col |-> "id"]),
     MkResponse(<<1>>, [kind |-> "bad_date", col |-> "last_updated"])}
Bodies(provider) == IF provider = "sample" THEN Sample ELSE Responses

\* The ways the GET or the decoding of its body can fail.
FetchFailures == {"Timeout", "ConnectionError", "HTTPError", "JSONDecodeError"}

InitRun ==
    /\ now = 0
    /\ pc = [r \in Runs |-> "start"]
    /\ http = [r \in Runs |-> "none"]
    /\ raw = [r \in Runs |-> <<>>]
    /\ df = [r \in Runs |-> <<>>]
    /\ ts = [r \in Runs |-> NoTime]
    /\ idx = [r \in Runs |-> 0]
    /\ exc = [r \in Runs |-> NoExc]
    /\ events = [r \in Runs |-> <<>>]
    /\ files = <<>>
    /\ clobbered = {}

\* One run, any response.
Init == procs = {1} /\ net = "any" /\ InitRun

\* Two instances launched side by side, the provider answering each with
\* a well-formed body, an empty one or one with an unparseable date.
InitRuns ==
    /\ procs = Runs
    /\ net = "sample"
    /\ InitRun

Tick ==
    /\ now < MaxClock
    /\ now' = now + 1
    /\ UNCHANGED <<procs, net, pc, http, raw, df, ts, idx, exc, events, files, clobbered>>

\* (Faulty variant: a failed GET is swallowed and some body is returned.)
FetchDataSwallow(r) ==
    /\ r \in procs /\ pc[r] = "start"
    /\ \E resp \in Bodies(net), outcome \in FetchFailures \cup {"ok"} :
         /\ events' = [events EXCEPT ![r] = Append(@, LogEv("Fetching API data...", NoPath, "none"))]
         /\ http' = [http EXCEPT ![r] = outcome]
         /\ raw' = [raw EXCEPT ![r] = resp]
         /\ pc' = [pc EXCEPT ![r] = "fetched"]
    /\ UNCHANGED <<procs, net, now, df, ts, idx, exc, files, clobbered>>

\* fetch_data, called from main: the log line, then the one GET.
FetchData(r) ==
    /\ r \in procs /\ pc[r] = "start"
    /\ events' = [events EXCEPT ![r] = Append(@, LogEv("Fetching API data...", NoPath, "none"))]
    /\ \/ \E resp \in Bodies(net) :
            /\ http' = [http EXCEPT ![r] = "ok"]
            /\ raw' = [raw EXCEPT ![r] = resp]
            /\ pc' = [pc EXCEPT ![r] = "fetched"]
            /\ exc' = exc
       \/ \E kind \in FetchFailures :
            /\ http' = [http EXCEPT ![r] = kind]
            /\ exc' = [exc EXCEPT ![r] = [stage |-> "fetch_data", kind |-> kind]]
            /\ pc' = [pc EXCEPT ![r] = "raised"]
            /\ raw' = raw
    /\ UNCHANGED <<procs, net, now, df, ts, idx, files, clobbered>>

\* transform_data: the log line, the projection, the clean-up, the run
\* timestamp, the sort.
TransformData(r) ==
    /\ r \in procs /\ pc[r] = "fetched"
    /\ events' = [events EXCEPT ![r] = Append(@, LogEv("Transforming data...", NoPath, "none"))]
    /\ \/ /\ ~ProjectOk(raw[r])
          /\ exc' = [exc EXCEPT ![r] = [stage |-> "transform_data", kind |-> "KeyError"]]
          /\ pc' = [pc EXCEPT ![r] = "raised"]
          /\ df' = df
       \/ /\ ProjectOk(raw[r]) /\ ~DatesOk(raw[r])
          /\ exc' = [exc EXCEPT ![r] = [stage |-> "transform_data", kind |-> "DateParseError"]]
          /\ pc' = [pc EXCEPT ![r] = "raised"]
          /\ df' = df
       \/ /\ ProjectOk(raw[r]) /\ DatesOk(raw[r])
          /\ \E sorted \in SortValues(Clean(raw[r], now)) : df' = [df EXCEPT ![r] = sorted]
          /\ pc' = [pc EXCEPT ![r] = "transformed"]
          /\ exc' = exc
    /\ UNCHANGED <<procs, net, now, http, raw, ts, idx, files, clobbered>>

\* export_reports, lines 116-125: the token is read from the clock once and
\* the eight paths are built from it.
ExportStart(r) ==
    /\ r \in procs /\ pc[r] = "transformed"
    /\ ts' = [ts EXCEPT ![r] = now]
    /\ idx' = [idx EXCEPT ![r] = 1]
    /\ pc' = [pc EXCEPT ![r] = "exporting"]
    /\ UNCHANGED <<procs, net, now, http, raw, df, exc, events, files, clobbered>>

\* The "Generated:" time an artifact shows: the HTML page and the PDF each
\* read the clock when they are produced.
GeneratedAt(art) == IF art \in {"html", "pdf"} THEN now ELSE NoTime

\* (Faulty variant: the file is written before its log line.)
ExportArtifactWriteFirst(r) ==
    /\ r \in procs /\ pc[r] = "exporting" /\ idx[r] <= Len(ArtifactOrder)
    /\ LET art == ArtifactOrder[idx[r]]
           path == PathOf(art, ts[r])
       IN /\ events' = [events EXCEPT ![r] =
                @ \o <<WriteEv(path), LogEv("Saving", path, "none")>>]
          /\ files' = Put(path, Content(r, art, GeneratedAt(art), TRUE))
          /\ clobbered' = Clobber(path, r)
          /\ idx' = [idx EXCEPT ![r] = @ + 1]
    /\ UNCHANGED <<procs, net, now, pc, http, raw, df, ts, exc>>

\* (Faulty variant: a failed artifact is skipped and the export goes on.)
ExportArtifactCarryOn(r) ==
    /\ r \in procs /\ pc[r] = "exporting" /\ idx[r] <= Len(ArtifactOrder)
    /\ LET art == ArtifactOrder[idx[r]]
           path == PathOf(art, ts[r])
       IN \/ /\ events' = [events EXCEPT ![r] =
                   @ \o <<LogEv("Saving", path, "none"), WriteEv(path)>>]
             /\ files' = Put(path, Content(r, art, GeneratedAt(art), TRUE))
             /\ clobbered' = Clobber(path, r)
             /\ idx' = [idx EXCEPT ![r] = @ + 1]
             /\ exc' = exc
          \/ /\ events' = [events EXCEPT ![r] = Append(@, LogEv("Saving", path, "none"))]
             /\ idx' = [idx EXCEPT ![r] = @ + 1]
             /\ exc' = [exc EXCEPT ![r] = [stage |-> "export_reports", kind |-> "RenderError"]]
             /\ UNCHANGED <<files, clobbered>>
    /\ UNCHANGED <<procs, net, now, pc, http, raw, df, ts>>

\* One artifact of export_reports: its log line, then its write.  A write
\* that fails raises out of export_reports and may leave a truncated file
\* at the path.
ExportArtifact(r) ==
    /\ r \in procs /\ pc[r] = "exporting" /\ idx[r] <= Len(ArtifactOrder)
    /\ LET art == ArtifactOrder[idx[r]]
           path == PathOf(art, ts[r])
       IN \/ /\ events' = [events EXCEPT ![r] =
                   @ \o <<LogEv("Saving", path, "none"), WriteEv(path)>>]
             /\ files' = Put(path, Content(r, art, GeneratedAt(art), TRUE))
             /\ clobbered' = Clobber(path, r)
             /\ idx' = [idx EXCEPT ![r] = @ + 1]
             /\ UNCHANGED <<pc, exc>>
          \/ /\ events' = [events EXCEPT ![r] = Append(@, LogEv("Saving", path, "none"))]
             /\ exc' = [exc EXCEPT ![r] = [stage |-> "export_reports", kind |-> "RenderError"]]
             /\ pc' = [pc EXCEPT ![r] = "raised"]
             /\ \/ UNCHANGED <<files, clobbered>>
                \/ /\ files' = Put(path, Content(r, art, GeneratedAt(art), FALSE))
                   /\ clobbered' = Clobber(path, r)
             /\ idx' = idx
    /\ UNCHANGED <<procs, net, now, http, raw, df, ts>>

\* The last line of export_reports.
ExportComplete(r) ==
    /\ r \in procs /\ pc[r] = "exporting" /\ idx[r] = Len(ArtifactOrder) + 1
    /\ events' = [events EXCEPT ![r] = Append(@, LogEv("Export complete.", NoPath, "none"))]
    /\ pc' = [pc EXCEPT ![r] = "exported"]
    /\ UNCHANGED <<procs, net, now, http, raw, df, ts, idx, exc, files, clobbered>>

\* (Faulty variant: main returns without the success line.)
RunFinishedSilent(r) ==
    /\ r \in procs /\ pc[r] = "exported"
    /\ pc' = [pc EXCEPT ![r] = "done"]
    /\ UNCHANGED <<procs, net, now, http, raw, df, ts, idx, exc, events, files, clobbered>>

\* main, line 182.
RunFinished(r) ==
    /\ r \in procs /\ pc[r] = "exported"
    /\ events' = [events EXCEPT ![r] =
          Append(@, LogEv("Run finished successfully.", NoPath, "none"))]
    /\ pc' = [pc EXCEPT ![r] = "done"]
    /\ UNCHANGED <<procs, net, now, http, raw, df, ts, idx, exc, files, clobbered>>

\* (Faulty variant: the except clause logs and re-raises.)
HandleExceptionReraise(r) ==
    /\ r \in procs /\ pc[r] = "raised"
    /\ events' = [events EXCEPT ![r] = Append(@, LogEv("ERROR", NoPath, exc[r].kind))]
    /\ pc' = [pc EXCEPT ![r] = "crashed"]
    /\ UNCHANGED <<procs, net, now, http, raw, df, ts, idx, exc, files, clobbered>>

\* main, lines 183-184: the except clause logs the error and main returns.
HandleException(r) ==
    /\ r \in procs /\ pc[r] = "raised"
    /\ events' = [events EXCEPT ![r] = Append(@, LogEv("ERROR", NoPath, exc[r].kind))]
    /\ pc' = [pc EXCEPT ![r] = "done"]
    /\ UNCHANGED <<procs, net, now, http, raw, df, ts, idx, exc, files, clobbered>>

Next ==
    \/ Tick
    \/ \E r \in Runs :
         \/ FetchData(r)
         \/ TransformData(r)
         \/ ExportStart(r)
         \/ ExportArtifact(r)
         \/ ExportComplete(r)
         \/ RunFinished(r)
         \/ HandleException(r)

Spec == Init /\ [][Next]_vars

SpecRuns == InitRuns /\ [][Next]_vars

\* ------------------------------------------------------ reading the events
At(r, k) == events[r][k]
Positions(r) == 1..Len(events[r])
ErrorAt(r) == {k \in Positions(r) : At(r, k).text = "ERROR"}
SuccessAt(r) == {k \in Positions(r) : At(r, k).text = "Run finished successfully."}
CompleteAt(r) == {k \in Positions(r) : At(r, k).text = "Export complete."}
WritesAt(r) == {k \in Positions(r) : At(r, k).type = "write"}
SavingAt(r) == {k \in Positions(r) : At(r, k).text = "Saving"}
TransformingAt(r) == {k \in Positions(r) : At(r, k).text = "Transforming data..."}
FilesBy(r) == {p \in DOMAIN files : files[p].by = r}
Failed(r) == exc[r].stage # "none"
PathAt(r, j) == PathOf(ArtifactOrder[j], ts[r])

\* C1: whichever stage raises, the run goes from the raise straight to the
\* except clause and ends there: one ERROR line carrying the exception, as
\* the run's last line, nothing of a later stage logged, written or
\* computed, and main returns instead of raising.
C1_FailureBoundary ==
    \A r \in procs :
        /\ pc[r] # "crashed"
        /\ Failed(r) =>
            /\ pc[r] \in {"raised", "done"}
            /\ pc[r] = "raised" => ErrorAt(r) = {}
            /\ pc[r] = "done" =>
                /\ ErrorAt(r) = {Len(events[r])}
                /\ At(r, Len(events[r])).kind = exc[r].kind
            /\ SuccessAt(r) = {} /\ CompleteAt(r) = {}
            /\ exc[r].stage = "fetch_data" =>
                 TransformingAt(r) = {} /\ df[r] = <<>> /\ raw[r] = <<>>
            /\ exc[r].stage \in {"fetch_data", "transform_data"} =>
                 SavingAt(r) = {} /\ WritesAt(r) = {} /\ ts[r] = NoTime /\ FilesBy(r) = {}

C1_Witness ==
    \E r \in procs :
        pc[r] = "done" /\ exc[r].stage = "transform_data" /\ ErrorAt(r) # {}

\* C2: a GET that times out ends the run with one ERROR line and without a
\* single file: transform and export never start, and the output directory
\* of the lone run is as it was.
C2_TimeoutLeavesNoFiles ==
    \A r \in procs :
        http[r] = "Timeout" =>
            /\ pc[r] \in {"raised", "done"}
            /\ pc[r] = "done" => Cardinality(ErrorAt(r)) = 1
            /\ TransformingAt(r) = {} /\ SavingAt(r) = {} /\ WritesAt(r) = {}
            /\ FilesBy(r) = {}
            /\ procs = {r} => DOMAIN files = {}

C2_Witness ==
    \E r \in procs : http[r] = "Timeout" /\ pc[r] = "done" /\ ErrorAt(r) # {}

\* C3: a response in which some record lacks a required column ends in a
\* schema error of transform_data, an ERROR line and no artifact.
C3_MissingColumnFails ==
    \A r \in procs :
        (pc[r] = "done" /\ http[r] = "ok" /\ ~CarriesAll(raw[r])) =>
            /\ exc[r] = [stage |-> "transform_data", kind |-> "KeyError"]
            /\ ErrorAt(r) # {}
            /\ FilesBy(r) = {}

\* C4: the rows transform_data returns are the cleaned input rows in
\* descending market_cap order, rows of equal market_cap in input order.
StableOrders(rows) ==
    {p \in Perms(Len(rows)) :
        \A i, j \in 1..Len(rows) :
            i < j =>
                \/ rows[p[i]]["market_cap"] > rows[p[j]]["market_cap"]
                \/ rows[p[i]]["market_cap"] = rows[p[j]]["market_cap"] /\ p[i] < p[j]}

C4_StableDescending ==
    \A r \in procs :
        (df[r] # <<>> /\ CarriesAll(raw[r])) =>
            LET rows == Clean(raw[r], df[r][1]["report_generated_at"]) IN
            \E p \in StableOrders(rows) : df[r] = [i \in 1..Len(rows) |-> rows[p[i]]]

\* C5: a response whose records all carry the required fields (and parse)
\* is transformed without an error into one row per record, zero records
\* included, every row with the ten schema columns and an upper-case symbol.
C5_OneRowPerRecord ==
    \A r \in procs :
        (http[r] = "ok" /\ pc[r] \notin {"start", "fetched"}
            /\ CarriesAll(raw[r]) /\ DatesOk(raw[r])) =>
            /\ exc[r].stage # "transform_data"
            /\ Len(df[r]) = Len(raw[r])
            /\ \A i \in 1..Len(df[r]) :
                 /\ DOMAIN df[r][i] = SchemaCols
                 /\ df[r][i]["symbol"] \in {"BTC", "ETH", "SOL", "DOGE"}

\* C6: when the i-th artifact fails, export_reports stops there: the
\* artifacts before it are on disk, complete and never rewritten, nothing
\* of an artifact after it is logged or written, and the failure is the
\* ERROR line that ends the run.
C6_ExportAbortsAtFailure ==
    \A r \in procs :
        exc[r].stage = "export_reports" =>
            /\ pc[r] \in {"raised", "done"}
            /\ pc[r] = "done" => At(r, Len(events[r])) = LogEv("ERROR", NoPath, exc[r].kind)
            /\ CompleteAt(r) = {} /\ SuccessAt(r) = {}
            /\ \A j \in 1..Len(ArtifactOrder) :
                 /\ j < idx[r] =>
                      /\ PathAt(r, j) \in DOMAIN files
                      /\ files[PathAt(r, j)].by = r
                      /\ files[PathAt(r, j)].art = ArtifactOrder[j]
                      /\ files[PathAt(r, j)].complete
                      /\ \A c \in clobbered : c.path # PathAt(r, j)
                      /\ \E k \in WritesAt(r) : At(r, k).path = PathAt(r, j)
                 /\ j = idx[r] =>
                      /\ \A k \in WritesAt(r) : At(r, k).path # PathAt(r, j)
                      /\ PathAt(r, j) \in DOMAIN files => ~files[PathAt(r, j)].complete
                 /\ j > idx[r] =>
                      /\ PathAt(r, j) \notin FilesBy(r)
                      /\ \A k \in Positions(r) : At(r, k).path # PathAt(r, j)

C6_Witness ==
    \E r \in procs :
        /\ exc[r].stage = "export_reports" /\ pc[r] = "done"
        /\ idx[r] = 4 /\ Cardinality(FilesBy(r)) = 3

\* C7 as stated: every filename of a run embeds the run's one token, and no
\* write of any run ever replaces a file that is already there.
C7_NeverOverwritten ==
    /\ \A r \in procs : \A k \in Positions(r) :
          At(r, k).path # NoPath => At(r, k).path[2] = ts[r]
    /\ clobbered = {}

\* C7 as amended: every filename of a run embeds the run's one token, a run
\* never replaces a file of its own, and a run replaces a file of another
\* run only when the two runs' tokens are the same second.
C7_WriteOnceUnlessSameToken ==
    /\ \A r \in procs : \A k \in Positions(r) :
          At(r, k).path # NoPath => At(r, k).path[2] = ts[r]
    /\ \A c \in clobbered : c.by # c.was /\ ts[c.by] = ts[c.was]
    /\ \A p \in DOMAIN files : p[2] = ts[files[p].by]

C7_Witness ==
    /\ procs = Runs /\ \A r \in Runs : pc[r] = "done" /\ ~Failed(r)
    /\ ts[1] # ts[2]
    /\ Cardinality(DOMAIN files) = 2 * Len(ArtifactOrder)
    /\ clobbered = {}

\* C8: in a run's record every write comes right after the one log line
\* that names its path, every such line is followed by its write (or by the
\* ERROR line of its failure), and "Export complete." comes after the
\* writes of all eight artifacts.
C8_LogThenWrite ==
    \A r \in procs : \A k \in Positions(r) :
        /\ At(r, k).type = "write" =>
             k > 1 /\ At(r, k - 1) = LogEv("Saving", At(r, k).path, "none")
        /\ At(r, k).text = "Saving" =>
             /\ \A m \in SavingAt(r) : At(r, m).path = At(r, k).path => m = k
             /\ k < Len(events[r]) =>
                  \/ At(r, k + 1) = WriteEv(At(r, k).path)
                  \/ At(r, k + 1).text = "ERROR"
        /\ At(r, k).text = "Export complete." =>
             /\ \A j \in 1..Len(ArtifactOrder) :
                  \E m \in 1..(k - 1) : At(r, m) = WriteEv(PathAt(r, j))
             /\ Cardinality({m \in WritesAt(r) : m < k}) = Len(ArtifactOrder)

C8_Witness ==
    \E r \in procs : CompleteAt(r) # {} /\ Cardinality(WritesAt(r)) = Len(ArtifactOrder)

\* C9: a run has one timestamp: report_generated_at is the same on every
\* row, and it is the token of the filenames and the "Generated" time of
\* the HTML page and of the PDF.
C9_SingleRunTimestamp ==
    \A r \in procs :
        /\ \A i \in 1..Len(df[r]) :
             df[r][i]["report_generated_at"] = df[r][1]["report_generated_at"]
        /\ (df[r] # <<>> /\ ts[r] # NoTime) => ts[r] = df[r][1]["report_generated_at"]
        /\ \A p \in FilesBy(r) :
             files[p].generated # NoTime => files[p].generated = ts[r]

\* C10: a finished run has exactly one closing line, "Run finished
\* successfully." or an ERROR line, as its last line; the success line is
\* there only when nothing raised and all eight artifacts were written, and
\* it follows "Export complete.".
Closing(r) == ErrorAt(r) \cup SuccessAt(r)

C10_OneClosingLine ==
    \A r \in procs :
        /\ Cardinality(Closing(r)) <= 1
        /\ pc[r] = "done" => Closing(r) = {Len(events[r])}
        /\ Closing(r) # {} => pc[r] = "done"
        /\ SuccessAt(r) # {} =>
             /\ ~Failed(r) /\ http[r] = "ok" /\ df[r] # <<>>
             /\ Cardinality(WritesAt(r)) = Len(ArtifactOrder)
             /\ \A j \in 1..Len(ArtifactOrder) :
                  \E k \in WritesAt(r) : At(r, k).path = PathAt(r, j)
             /\ Len(events[r]) > 1
             /\ At(r, Len(events[r]) - 1).text = "Export complete."

C10_Witness ==
    \E r \in procs : pc[r] = "done" /\ SuccessAt(r) # {}

====
